---- MODULE Spec2Model ----
(***************************************************************************)
(* A model of the cupid crate (src/src/lib.rs): the cpuid query primitive, *)
(* the bit-range extractor, the four descriptor types with their accessors *)
(* and renderings, and the brand string.                                   *)
(*                                                                         *)
(* A u32 is modelled as the set of its set bit positions, a subset of      *)
(* 0..31 (TLC's integers are 32-bit signed and cannot hold every u32).     *)
(* A byte is a number in 0..255; text is a TLA+ string.                    *)
(***************************************************************************)
EXTENDS Integers, Sequences, FiniteSets, TLC

VARIABLES
    overflow_checks, \* the build: TRUE = arithmetic overflow panics (debug)
    input,           \* arguments of the pure-function call under study
    call,            \* the last pure-function / accessor call and its result
    desc,            \* the descriptor value under study
    calls,           \* the public operations invoked so far, in order
    queries,         \* the cpuid instructions issued so far: <<eax, ecx>> inputs
    regs,            \* the register quads returned to the last operation
    ret,             \* the value returned by the last operation
    sink,            \* the output sink a rendering writes to
    fmt_result,      \* result of the last rendering: "none", "Ok" or "Err"
    before           \* what the sink had accepted when the last rendering began

vars == <<overflow_checks, input, call, desc, calls, queries, regs, ret,
          sink, fmt_result, before>>

----------------------------------------------------------------------------
(* u32 arithmetic on bit sets *)

Bits == 0..31

Pow2(n) == 2 ^ n

\* The u32 whose upper and lower 16-bit halves are hi and lo.
U32(hi, lo) ==
    {i \in 0..15 : (lo \div Pow2(i)) % 2 = 1}
        \cup {i + 16 : i \in {j \in 0..15 : (hi \div Pow2(j)) % 2 = 1}}

RECURSIVE SumPow2(_)
SumPow2(s) ==
    IF s = {} THEN 0
    ELSE LET i == CHOOSE j \in s : TRUE IN Pow2(i) + SumPow2(s \ {i})

\* The number a bit set below 2^31 stands for.
ToNat(w) == SumPow2(w)

\* w << 1 on a u32: the bit shifted out of position 31 is dropped.
Shl1(w) == {i + 1 : i \in {j \in w : j < 31}}

\* w << n on a u32, n < 32.
Shl(w, n) == {i + n : i \in {j \in w : j + n <= 31}}

\* w >> n on a u32, n < 32.
Shr(w, n) == {i - n : i \in {j \in w : j >= n}}

BitAnd(a, b) == a \cap b

BitOr(a, b) == a \cup b

One == {0}

Zero == {}

----------------------------------------------------------------------------
(* fn bits_of(val: u32, start_bit: u8, end_bit: u8) -> u32 *)

\* for _ in start_bit..end_bit+1 { silly <<= 1; silly |= 1; }
RECURSIVE silly_loop(_, _)
silly_loop(silly, n) ==
    IF n <= 0 THEN silly
    ELSE silly_loop(BitOr(Shl1(silly), One), n - 1)

\* bits_of with the mask applied before the shift: (val & silly) >> start_bit.
bits_of_mask_first(val, start_bit, end_bit, checked) ==
    LET add_overflows == end_bit + 1 > 255
        upper == (end_bit + 1) % 256
        shr_overflows == start_bit >= 32
        silly == silly_loop(Zero, upper - start_bit)
    IN  IF checked /\ (add_overflows \/ shr_overflows)
        THEN [panicked |-> TRUE, value |-> Zero]
        ELSE [panicked |-> FALSE,
              value |-> Shr(BitAnd(val, silly), start_bit % 32)]

\* The result is [panicked, value]. end_bit+1 overflows a u8 at 255 and
\* val >> start_bit overflows at start_bit >= 32: with overflow checks
\* both panic, without them the sum wraps to 0 and the shift count is
\* taken modulo 32.
bits_of(val, start_bit, end_bit, checked) ==
    LET add_overflows == end_bit + 1 > 255
        upper == (end_bit + 1) % 256
        shr_overflows == start_bit >= 32
        silly == silly_loop(Zero, upper - start_bit)
    IN  IF checked /\ (add_overflows \/ shr_overflows)
        THEN [panicked |-> TRUE, value |-> Zero]
        ELSE [panicked |-> FALSE,
              value |-> BitAnd(Shr(val, start_bit % 32), silly)]

----------------------------------------------------------------------------
(* Sample inputs *)

AllOnes == Bits

\* 0x00003024, 0x55555555, 0xAAAAAAAA, 0x80000001
PatternWords ==
    {U32(0, 12324), U32(21845, 21845), U32(43690, 43690), U32(32768, 1)}

\* 0, 0xFFFFFFFF, every single-bit word, every word with a single bit clear,
\* and a few mixed patterns.
WordSamples ==
    {Zero, AllOnes} \cup {{i} : i \in Bits} \cup {AllOnes \ {i} : i \in Bits}
        \cup PatternWords

\* u8 arguments: every valid bit index, the first invalid one, and u8::MAX.
U8Samples == (0..32) \cup {255}

NoCall == [op |-> "none"]

NoInput == [op |-> "none"]

NoDesc == [kind |-> "none"]

NoSink == [accepted |-> <<>>, attempts |-> 0, reject_at |-> 0]

\* The variables a specification does not use keep these values.
IdleQuery ==
    /\ calls = <<>>
    /\ queries = <<>>
    /\ regs = <<>>
    /\ ret = [kind |-> "none"]

IdleRender ==
    /\ sink = NoSink
    /\ fmt_result = "none"
    /\ before = <<>>

----------------------------------------------------------------------------
(* Specification of bits_of alone: Init draws the arguments, the action    *)
(* applies the function.                                                   *)

InitBitsOf ==
    /\ overflow_checks \in BOOLEAN
    /\ input \in [op : {"bits_of"}, val : WordSamples,
                  start_bit : U8Samples, end_bit : U8Samples]
    /\ call = NoCall
    /\ desc = NoDesc
    /\ IdleQuery
    /\ IdleRender

call_bits_of ==
    /\ input.op = "bits_of"
    /\ call = NoCall
    /\ call' = [op |-> "bits_of",
                out |-> bits_of(input.val, input.start_bit, input.end_bit,
                                overflow_checks)]
    /\ UNCHANGED <<overflow_checks, input, desc, calls, queries, regs, ret,
                   sink, fmt_result, before>>

NextBitsOf == call_bits_of

SpecBitsOf == InitBitsOf /\ [][NextBitsOf]_vars

ValidRange(s, e) == 0 <= s /\ s <= e /\ e <= 31

\* C3: for every word and every range 0 <= start <= end <= 31, bits_of
\* completes without overflow and returns (w >> start) mod 2^(end-start+1);
\* shifting the result back left by start gives exactly the bits of w in
\* positions start..end and zero elsewhere.
C3_BitsOfExtractsRange ==
    (call.op = "bits_of" /\ ValidRange(input.start_bit, input.end_bit)) =>
        /\ ~call.out.panicked
        /\ call.out.value =
              {i - input.start_bit :
                  i \in {j \in input.val :
                            input.start_bit <= j /\ j <= input.end_bit}}
        /\ Shl(call.out.value, input.start_bit) =
              input.val \cap (input.start_bit .. input.end_bit)

C3_Witness ==
    /\ call.op = "bits_of"
    /\ input.val = AllOnes
    /\ input.start_bit = 0
    /\ input.end_bit = 31
    /\ ~call.out.panicked
    /\ call.out.value = AllOnes

----------------------------------------------------------------------------
(* Descriptor types and their accessor methods *)

\* macro_rules! bit: the method `pub fn $name(self) -> bool` it generates.
bit(reg, idx, name) == [kind |-> "bit", reg |-> reg, idx |-> idx, name |-> name]

\* A method written out by hand in an impl block.
method(name) == [kind |-> "fn", name |-> name]

\* impl FeatureInformation (lib.rs 74-140)
FeatureInformation_impl ==
    <<bit("ecx", 0, "sse3"), bit("ecx", 1, "pclmulqdq"),
      bit("ecx", 2, "dtes64"), bit("ecx", 3, "monitor"),
      bit("ecx", 4, "ds_cpl"), bit("ecx", 5, "vmx"),
      bit("ecx", 6, "smx"), bit("ecx", 7, "eist"),
      bit("ecx", 8, "tm2"), bit("ecx", 9, "ssse3"),
      bit("ecx", 10, "cnxt_id"), bit("ecx", 11, "sdbg"),
      bit("ecx", 12, "fma"), bit("ecx", 13, "cmpxchg16b"),
      bit("ecx", 14, "xtpr_update_control"), bit("ecx", 15, "pdcm"),
      bit("ecx", 17, "pcid"), bit("ecx", 18, "dca"),
      bit("ecx", 19, "sse4_1"), bit("ecx", 20, "sse4_2"),
      bit("ecx", 21, "x2apic"), bit("ecx", 22, "movbe"),
      bit("ecx", 23, "popcnt"), bit("ecx", 24, "tsc_deadline"),
      bit("ecx", 25, "aesni"), bit("ecx", 26, "xsave"),
      bit("ecx", 27, "osxsave"), bit("ecx", 28, "avx"),
      bit("ecx", 29, "f16c"), bit("ecx", 30, "rdrand"),
      bit("edx", 0, "fpu"), bit("edx", 1, "vme"),
      bit("edx", 2, "de"), bit("edx", 3, "pse"),
      bit("edx", 4, "tsc"), bit("edx", 5, "msr"),
      bit("edx", 6, "pae"), bit("edx", 7, "mce"),
      bit("edx", 8, "cx8"), bit("edx", 9, "apic"),
      bit("edx", 11, "sep"), bit("edx", 12, "mtrr"),
      bit("edx", 13, "pge"), bit("edx", 14, "mca"),
      bit("edx", 15, "cmov"), bit("edx", 16, "pat"),
      bit("edx", 17, "pse_36"), bit("edx", 18, "psn"),
      bit("edx", 19, "clfsh"), bit("edx", 21, "ds"),
      bit("edx", 22, "acpi"), bit("edx", 23, "mmx"),
      bit("edx", 24, "fxsr"), bit("edx", 25, "sse"),
      bit("edx", 26, "sse2"), bit("edx", 27, "ss"),
      bit("edx", 28, "htt"), bit("edx", 29, "tm"),
      bit("edx", 31, "pbe")>>

\* impl ThermalPowerManagementInformation (lib.rs 285-308)
ThermalPowerManagementInformation_impl ==
    <<bit("eax", 0, "digital_temperature_sensor"), bit("eax", 1, "intel_turbo_boost"),
      bit("eax", 2, "arat"), bit("eax", 4, "pln"),
      bit("eax", 5, "ecmd"), bit("eax", 6, "ptm"),
      bit("eax", 7, "hwp"), bit("eax", 8, "hwp_notification"),
      bit("eax", 9, "hwp_activity_window"), bit("eax", 10, "hwp_energy_performance_preference"),
      bit("eax", 13, "hdc"), method("number_of_interrupt_thresholds"),
      bit("ecx", 0, "hardware_coordination_feedback"), bit("ecx", 3, "performance_energy_bias")>>

\* impl StructuredExtendedInformation (lib.rs 343-378)
StructuredExtendedInformation_impl ==
    <<bit("ebx", 0, "fsgsbase"), bit("ebx", 1, "ia32_tsc_adjust_msr"),
      bit("ebx", 3, "bmi1"), bit("ebx", 4, "hle"),
      bit("ebx", 5, "avx2"), bit("ebx", 7, "smep"),
      bit("ebx", 8, "bmi2"), bit("ebx", 9, "enhanced_rep_movsb_stosb"),
      bit("ebx", 10, "invpcid"), bit("ebx", 11, "rtm"),
      bit("ebx", 12, "pqm"), bit("ebx", 13, "deprecates_fpu_cs_ds"),
      bit("ebx", 15, "pqe"), bit("ebx", 18, "rdseed"),
      bit("ebx", 19, "adx"), bit("ebx", 20, "smap"),
      bit("ebx", 25, "intel_processor_trace"), bit("ecx", 0, "prefetchwt1")>>

\* impl PhysicalAddressSize (lib.rs 412-420)
PhysicalAddressSize_impl ==
    <<method("physical_address_bits"), method("linear_address_bits")>>

Range(s) == {s[i] : i \in DOMAIN s}

impl_of(kind) ==
    CASE kind = "FeatureInformation" -> FeatureInformation_impl
      [] kind = "ThermalPowerManagementInformation" ->
            ThermalPowerManagementInformation_impl
      [] kind = "StructuredExtendedInformation" ->
            StructuredExtendedInformation_impl
      [] kind = "PhysicalAddressSize" -> PhysicalAddressSize_impl

\* The body of a bit! method without the `& 1`.
bit_body_unmasked(self, reg, idx) == Shr(self[reg], idx) /= Zero

\* ((self.$reg >> $idx) & 1) != 0
bit_body(self, reg, idx) == BitAnd(Shr(self[reg], idx), One) /= Zero

\* pub fn number_of_interrupt_thresholds(self) -> u32
number_of_interrupt_thresholds(self) ==
    bits_of(self.ebx, 0, 3, overflow_checks).value

\* pub fn physical_address_bits(self) -> u32
physical_address_bits(self) == bits_of(self.f0, 0, 7, overflow_checks).value

\* linear_address_bits reading one bit too many.
linear_address_bits_wide(self) ==
    bits_of(self.f0, 8, 16, overflow_checks).value

\* pub fn linear_address_bits(self) -> u32
linear_address_bits(self) == bits_of(self.f0, 8, 15, overflow_checks).value

\* self.$name(): the call of the method m of self's type.
invoke(self, m) ==
    IF m.kind = "bit" THEN bit_body(self, m.reg, m.idx)
    ELSE CASE m.name = "number_of_interrupt_thresholds" ->
                  number_of_interrupt_thresholds(self)
           [] m.name = "physical_address_bits" -> physical_address_bits(self)
           [] m.name = "linear_address_bits" -> linear_address_bits(self)

\* Descriptor values: the fields each struct declares.
FeatureInformation(c, d) ==
    [kind |-> "FeatureInformation", ecx |-> c, edx |-> d]

ThermalPowerManagementInformation(a, b, c) ==
    [kind |-> "ThermalPowerManagementInformation",
     eax |-> a, ebx |-> b, ecx |-> c]

StructuredExtendedInformation(b, c) ==
    [kind |-> "StructuredExtendedInformation", ebx |-> b, ecx |-> c]

PhysicalAddressSize(a) == [kind |-> "PhysicalAddressSize", f0 |-> a]

----------------------------------------------------------------------------
(* Specification of the accessors: Init draws a descriptor, each action    *)
(* calls one accessor of it.                                               *)

\* The words beside the one under study.
OtherWords == {Zero, AllOnes, U32(0, 12324)}

DescSamples ==
    {FeatureInformation(w, o) : w \in WordSamples, o \in OtherWords}
        \cup {FeatureInformation(o, w) : w \in WordSamples, o \in OtherWords}
        \cup {ThermalPowerManagementInformation(w, o, o) :
                  w \in WordSamples, o \in OtherWords}
        \cup {ThermalPowerManagementInformation(o, w, o) :
                  w \in WordSamples, o \in OtherWords}
        \cup {ThermalPowerManagementInformation(o, o, w) :
                  w \in WordSamples, o \in OtherWords}
        \cup {StructuredExtendedInformation(w, o) :
                  w \in WordSamples, o \in OtherWords}
        \cup {StructuredExtendedInformation(o, w) :
                  w \in WordSamples, o \in OtherWords}
        \cup {PhysicalAddressSize(w) : w \in WordSamples}

InitAccessors ==
    /\ overflow_checks \in BOOLEAN
    /\ input = NoInput
    /\ call = NoCall
    /\ desc \in DescSamples
    /\ IdleQuery
    /\ IdleRender

call_accessor(kind) ==
    /\ desc.kind = kind
    /\ call = NoCall
    /\ \E i \in DOMAIN impl_of(kind) :
          LET m == impl_of(kind)[i]
          IN  call' = [op |-> m.name, m |-> m, out |-> invoke(desc, m)]
    /\ UNCHANGED <<overflow_checks, input, desc, calls, queries, regs, ret,
                   sink, fmt_result, before>>

call_FeatureInformation == call_accessor("FeatureInformation")

call_ThermalPowerManagementInformation ==
    call_accessor("ThermalPowerManagementInformation")

call_StructuredExtendedInformation ==
    call_accessor("StructuredExtendedInformation")

call_PhysicalAddressSize == call_accessor("PhysicalAddressSize")

NextAccessors ==
    \/ call_FeatureInformation
    \/ call_ThermalPowerManagementInformation
    \/ call_StructuredExtendedInformation
    \/ call_PhysicalAddressSize

SpecAccessors == InitAccessors /\ [][NextAccessors]_vars

BitKinds ==
    {"FeatureInformation", "ThermalPowerManagementInformation",
     "StructuredExtendedInformation"}

\* The fields of a descriptor that hold captured words.
WordFields(d) == DOMAIN d \ {"kind"}

\* C4: every accessor generated by bit!(reg, idx, name) returns true exactly
\* when bit idx of the captured word reg is 1, which equals
\* bits_of(word, idx, idx) == 1; no other bit and no other captured word
\* changes the result.
C4_BitAccessorReadsItsBit ==
    (call.op /= "none" /\ desc.kind \in BitKinds /\ call.m.kind = "bit") =>
        /\ call.out = (call.m.idx \in desc[call.m.reg])
        /\ call.out =
              (bits_of(desc[call.m.reg], call.m.idx, call.m.idx,
                       overflow_checks).value = One)
        /\ \A w \in OtherWords \cup PatternWords, f \in WordFields(desc) :
              LET other == [desc EXCEPT ![f] = w]
              IN  (call.m.idx \in other[call.m.reg]) = call.out
                      => invoke(other, call.m) = call.out

\* pbe (edx bit 31) read as true from a word whose other bits are all 0,
\* beside a second captured word that is 0.
C4_Witness ==
    /\ call.op = "pbe"
    /\ desc.kind = "FeatureInformation"
    /\ desc.edx = {31}
    /\ desc.ecx = Zero
    /\ call.out = TRUE

\* C5: physical_address_bits returns bits 0-7 of the captured word and
\* linear_address_bits bits 8-15; they read disjoint bits and none above 15;
\* for 0x00003024 they are 36 and 48.
C5_AddressSizeFields ==
    (call.op /= "none" /\ desc.kind = "PhysicalAddressSize") =>
        /\ call.op = "physical_address_bits" =>
              /\ call.out = desc.f0 \cap (0..7)
              /\ desc.f0 = U32(0, 12324) => ToNat(call.out) = 36
        /\ call.op = "linear_address_bits" =>
              /\ call.out = {i - 8 : i \in desc.f0 \cap (8..15)}
              /\ desc.f0 = U32(0, 12324) => ToNat(call.out) = 48
        /\ \A w \in WordSamples :
              (w \cap (0..15) = desc.f0 \cap (0..15)) =>
                  /\ physical_address_bits(PhysicalAddressSize(w)) =
                        physical_address_bits(desc)
                  /\ linear_address_bits(PhysicalAddressSize(w)) =
                        linear_address_bits(desc)

C5_Witness ==
    /\ desc = PhysicalAddressSize(U32(0, 12324))
    /\ call.op = "linear_address_bits"
    /\ ToNat(call.out) = 48

----------------------------------------------------------------------------
(* The cpuid primitive, the factory functions and the brand string *)

\* enum RequestType, each code as the u32 it is cast to.
RequestType ==
    [BasicInformation |-> U32(0, 0),
     VersionInformation |-> U32(0, 1),
     ThermalPowerManagementInformation |-> U32(0, 6),
     StructuredExtendedInformation |-> U32(0, 7),
     ExtendedFunctionInformation |-> U32(32768, 0),
     BrandString1 |-> U32(32768, 2),
     BrandString2 |-> U32(32768, 3),
     BrandString3 |-> U32(32768, 4),
     PhysicalAddressSize |-> U32(32768, 8)]

\* fn cpuid(code): the instruction's inputs, "{eax}"(code as u32) and
\* "{ecx}"(0 as u32). Its four outputs are the hardware's answer.
cpuid(code) == [eax |-> code, ecx |-> Zero]

\* The byte in position k (0 = least significant) of a u32.
ByteOf(v, k) ==
    LET b(i) == IF 8 * k + i \in v THEN Pow2(i) ELSE 0
    IN  b(0) + b(1) + b(2) + b(3) + b(4) + b(5) + b(6) + b(7)

\* as_bytes on a big-endian reading of the word.
as_bytes_reversed(v) == <<ByteOf(v, 3), ByteOf(v, 2), ByteOf(v, 1), ByteOf(v, 0)>>

\* fn as_bytes(v: &u32) -> &[u8]: the word's four bytes as they lie in
\* memory. The cpuid instruction exists on x86 only, which is little-endian.
as_bytes(v) == <<ByteOf(v, 0), ByteOf(v, 1), ByteOf(v, 2), ByteOf(v, 3)>>

\* const BRAND_STRING_LENGTH: usize = 3 * 4 * 4;
BRAND_STRING_LENGTH == 3 * 4 * 4

\* BrandString::new(): BrandString { bytes: [0; BRAND_STRING_LENGTH] }
BrandString_new ==
    [kind |-> "BrandString", bytes |-> [n \in 1..BRAND_STRING_LENGTH |-> 0]]

\* The body of append_bytes after its cpuid call returned quad: bytes is the
\* slice of the buffer that starts at index from (0-based); zip stops at the
\* shorter of the slice and the 16 result bytes.
append_bytes(quad, buffer, from) ==
    LET result_bytes ==
            as_bytes(quad[1]) \o as_bytes(quad[2])
                \o as_bytes(quad[3]) \o as_bytes(quad[4])
    IN  [n \in 1..Len(buffer) |->
            IF n > from /\ n - from <= Len(result_bytes)
            THEN result_bytes[n - from]
            ELSE buffer[n]]

\* impl Deref for BrandString: position(|&b| b == 0).unwrap_or(0), then
\* &self.bytes[..nul_terminator]. The text is given as its bytes.
deref(self) ==
    LET zeros == {n \in 1..Len(self.bytes) : self.bytes[n] = 0}
        nul_terminator ==
            IF zeros = {} THEN 0
            ELSE (CHOOSE n \in zeros : \A m \in zeros : n <= m) - 1
    IN  SubSeq(self.bytes, 1, nul_terminator)

\* The u32 with bytes b0 (least significant) to b3.
W(b0, b1, b2, b3) == U32(b3 * 256 + b2, b1 * 256 + b0)

\* Answers the hardware may give to a query. All bytes are ASCII: the
\* brand string is handed to str::from_utf8_unchecked, which is undefined
\* on other bytes.
Quads ==
    {\* "Intel(R) Core(TM": sixteen bytes, none zero
     <<W(73, 110, 116, 101), W(108, 40, 82, 41), W(32, 67, 111, 114), W(101, 40, 84, 77)>>,
     \* "ABC", a zero byte, then "rest of buf."
     <<W(65, 66, 67, 0), W(114, 101, 115, 116), W(32, 111, 102, 32), W(98, 117, 102, 46)>>,
     \* an unsupported leaf: all zero
     <<Zero, Zero, Zero, Zero>>,
     \* leaf 0 of a GenuineIntel processor: 0xD, "Genu", "ntel", "ineI"
     <<U32(0, 13), W(71, 101, 110, 117), W(110, 116, 101, 108), W(105, 110, 101, 73)>>,
     \* leaf 0 of a GenuineTMx86 processor: 1, "Genu", "Mx86", "ineT"
     <<U32(0, 1), W(71, 101, 110, 117), W(77, 120, 56, 54), W(105, 110, 101, 84)>>,
     \* 0x00003024 and three words of distinct bytes
     <<U32(0, 12324), W(1, 2, 3, 4), W(5, 6, 7, 8), W(9, 10, 11, 12)>>}

\* The answers drawn for the brand-string leaves: full text, text cut by a
\* zero byte, zeros, and distinct bytes.
BrandQuads == {q \in Quads : q[2] /= W(71, 101, 110, 117)}

\* The printable ASCII characters, codes 32 to 126 (code 96, the backquote,
\* which a TLA+ string cannot hold, is given as "?").
Chr ==
    <<" ", "!", "\"", "#", "$", "%", "&", "'",
      "(", ")", "*", "+", ",", "-", ".", "/",
      "0", "1", "2", "3", "4", "5", "6", "7",
      "8", "9", ":", ";", "<", "=", ">", "?",
      "@", "A", "B", "C", "D", "E", "F", "G",
      "H", "I", "J", "K", "L", "M", "N", "O",
      "P", "Q", "R", "S", "T", "U", "V", "W",
      "X", "Y", "Z", "[", "\\", "]", "^", "_",
      "?", "a", "b", "c", "d", "e", "f", "g",
      "h", "i", "j", "k", "l", "m", "n", "o",
      "p", "q", "r", "s", "t", "u", "v", "w",
      "x", "y", "z", "{", "|", "}", "~">>

\* The text of a sequence of printable ASCII bytes.
RECURSIVE StrOf(_)
StrOf(bytes) ==
    IF bytes = <<>> THEN ""
    ELSE Chr[Head(bytes) - 31] \o StrOf(Tail(bytes))

----------------------------------------------------------------------------
(* Specification of the public operations: each action is one call, with   *)
(* the hardware's answers as its inputs.                                   *)

MaxCalls == 2

Init ==
    /\ overflow_checks \in BOOLEAN
    /\ input = NoInput
    /\ call = NoCall
    /\ desc = NoDesc
    /\ IdleQuery
    /\ IdleRender

CanCall == Len(calls) < MaxCalls

Unused == <<overflow_checks, input, desc, sink, fmt_result, before>>

\* feature_information keeping the second and third result words.
feature_information_shifted ==
    /\ CanCall
    /\ \E q \in Quads :
          /\ queries' = Append(queries, cpuid(RequestType.VersionInformation))
          /\ regs' = <<q>>
          /\ ret' = FeatureInformation(q[2], q[3])
    /\ calls' = Append(calls, "feature_information")
    /\ call' = NoCall
    /\ UNCHANGED Unused

\* pub fn feature_information() -> FeatureInformation
feature_information ==
    /\ CanCall
    /\ \E q \in Quads :
          /\ queries' = Append(queries, cpuid(RequestType.VersionInformation))
          /\ regs' = <<q>>
          /\ ret' = FeatureInformation(q[3], q[4])
    /\ calls' = Append(calls, "feature_information")
    /\ call' = NoCall
    /\ UNCHANGED Unused

\* pub fn thermal_power_management_information()
thermal_power_management_information ==
    /\ CanCall
    /\ \E q \in Quads :
          /\ queries' =
                Append(queries,
                       cpuid(RequestType.ThermalPowerManagementInformation))
          /\ regs' = <<q>>
          /\ ret' = ThermalPowerManagementInformation(q[1], q[2], q[3])
    /\ calls' = Append(calls, "thermal_power_management_information")
    /\ call' = NoCall
    /\ UNCHANGED Unused

\* pub fn structured_extended_information()
structured_extended_information ==
    /\ CanCall
    /\ \E q \in Quads :
          /\ queries' =
                Append(queries,
                       cpuid(RequestType.StructuredExtendedInformation))
          /\ regs' = <<q>>
          /\ ret' = StructuredExtendedInformation(q[2], q[3])
    /\ calls' = Append(calls, "structured_extended_information")
    /\ call' = NoCall
    /\ UNCHANGED Unused

\* pub fn physical_address_size() -> PhysicalAddressSize
physical_address_size ==
    /\ CanCall
    /\ \E q \in Quads :
          /\ queries' = Append(queries, cpuid(RequestType.PhysicalAddressSize))
          /\ regs' = <<q>>
          /\ ret' = PhysicalAddressSize(q[1])
    /\ calls' = Append(calls, "physical_address_size")
    /\ call' = NoCall
    /\ UNCHANGED Unused

\* pub fn brand_string() -> BrandString: three append_bytes calls, on the
\* slices bytes[0..], bytes[16..] and bytes[32..], each issuing one query.
brand_string ==
    /\ CanCall
    /\ \E q1 \in BrandQuads, q2 \in BrandQuads, q3 \in BrandQuads :
          LET b0 == BrandString_new.bytes
              b1 == append_bytes(q1, b0, 0)
              b2 == append_bytes(q2, b1, 16)
              b3 == append_bytes(q3, b2, 32)
          IN  /\ queries' =
                    queries \o <<cpuid(RequestType.BrandString1),
                                 cpuid(RequestType.BrandString2),
                                 cpuid(RequestType.BrandString3)>>
              /\ regs' = <<q1, q2, q3>>
              /\ ret' = [kind |-> "BrandString", bytes |-> b3]
    /\ calls' = Append(calls, "brand_string")
    /\ call' = NoCall
    /\ UNCHANGED Unused

\* The string view of the brand string just returned (&*brand_string()).
call_deref ==
    /\ ret.kind = "BrandString"
    /\ call = NoCall
    /\ call' = [op |-> "deref", out |-> deref(ret)]
    /\ UNCHANGED <<overflow_checks, input, desc, calls, queries, regs, ret,
                   sink, fmt_result, before>>

\* The test comparing the second result word only.
basic_genuine_intel_first_chunk ==
    /\ CanCall
    /\ \E q \in Quads :
          /\ queries' = Append(queries, cpuid(RequestType.BasicInformation))
          /\ regs' = <<q>>
          /\ ret' = [kind |-> "test",
                     passed |-> <<71, 101, 110, 117>> = as_bytes(q[2])]
    /\ calls' = Append(calls, "basic_genuine_intel")
    /\ call' = NoCall
    /\ UNCHANGED Unused

\* #[test] fn basic_genuine_intel(): passes when b, c and d are the bytes
\* b"Genu", b"ntel" and b"ineI".
basic_genuine_intel ==
    /\ CanCall
    /\ \E q \in Quads :
          /\ queries' = Append(queries, cpuid(RequestType.BasicInformation))
          /\ regs' = <<q>>
          /\ ret' = [kind |-> "test",
                     passed |-> /\ <<71, 101, 110, 117>> = as_bytes(q[2])
                                /\ <<110, 116, 101, 108>> = as_bytes(q[3])
                                /\ <<105, 110, 101, 73>> = as_bytes(q[4])]
    /\ calls' = Append(calls, "basic_genuine_intel")
    /\ call' = NoCall
    /\ UNCHANGED Unused

Next ==
    \/ feature_information
    \/ thermal_power_management_information
    \/ structured_extended_information
    \/ physical_address_size
    \/ brand_string
    \/ call_deref
    \/ basic_genuine_intel

Spec == Init /\ [][Next]_vars

LastCall == IF calls = <<>> THEN "none" ELSE calls[Len(calls)]

\* The first zero byte's 1-based position in a byte sequence, 0 if none.
FirstZero(bytes) ==
    IF \E n \in DOMAIN bytes : bytes[n] = 0
    THEN CHOOSE n \in DOMAIN bytes :
             bytes[n] = 0 /\ \A m \in 1..(n - 1) : bytes[m] /= 0
    ELSE 0

\* C1: the string value of a BrandString is the buffer's prefix up to the
\* first zero byte, and the whole 48-byte buffer when no byte is zero.
C1_DerefIsPrefixOrWhole ==
    call.op = "deref" =>
        call.out =
            IF FirstZero(ret.bytes) = 0 THEN ret.bytes
            ELSE SubSeq(ret.bytes, 1, FirstZero(ret.bytes) - 1)

\* C1 on buffers that hold a zero byte, where the code agrees with it: the
\* buffer "ABC", zero, ... reads "ABC".
C1_DerefWithZeroByte ==
    (call.op = "deref" /\ FirstZero(ret.bytes) /= 0) =>
        /\ call.out = SubSeq(ret.bytes, 1, FirstZero(ret.bytes) - 1)
        /\ SubSeq(ret.bytes, 1, 4) = <<65, 66, 67, 0>> =>
              StrOf(call.out) = "ABC"

\* The selectors the operations named in a call history issue, in order.
RECURSIVE ExpectedSelectors(_)
ExpectedSelectors(cs) ==
    IF cs = <<>> THEN <<>>
    ELSE LET c == Head(cs)
             own ==
                 CASE c = "feature_information" -> <<U32(0, 1)>>
                   [] c = "thermal_power_management_information" ->
                         <<U32(0, 6)>>
                   [] c = "structured_extended_information" -> <<U32(0, 7)>>
                   [] c = "physical_address_size" -> <<U32(32768, 8)>>
                   [] c = "brand_string" ->
                         <<U32(32768, 2), U32(32768, 3), U32(32768, 4)>>
                   [] c = "basic_genuine_intel" -> <<U32(0, 0)>>
         IN  own \o ExpectedSelectors(Tail(cs))

Front(s) == SubSeq(s, 1, Len(s) - 1)

\* C2: brand_string issues exactly three queries, selectors 0x80000002,
\* 0x80000003, 0x80000004 in that order, and buffer byte 16*i + 4*j + k is
\* byte k (least significant first) of result word j of query i: the buffer
\* is 48 bytes decided by the three results alone.
C2_BrandStringAssembly ==
    LastCall = "brand_string" =>
        LET n == Len(queries)
        IN  /\ n = Len(ExpectedSelectors(Front(calls))) + 3
            /\ Len(regs) = 3
            /\ \A i \in 0..2 :
                  queries[n - 2 + i] = [eax |-> U32(32768, 2 + i), ecx |-> Zero]
            /\ Len(ret.bytes) = 48
            /\ \A i \in 0..2, j \in 0..3, k \in 0..3 :
                  ret.bytes[16 * i + 4 * j + k + 1] =
                      ToNat({b - 8 * k :
                                b \in {c \in regs[i + 1][j + 1] :
                                          8 * k <= c /\ c <= 8 * k + 7}})

\* The three queries answered "ABC\0rest of buf.", "Intel(R) Core(TM" and
\* zeros: byte 0 is 'A', byte 3 is zero, byte 16 is 'I', byte 47 is zero.
C2_Witness ==
    /\ LastCall = "brand_string"
    /\ ret.bytes[1] = 65
    /\ ret.bytes[4] = 0
    /\ ret.bytes[5] = 114
    /\ ret.bytes[17] = 73
    /\ \A n \in 17..32 : ret.bytes[n] >= 32
    /\ StrOf(SubSeq(ret.bytes, 17, 32)) = "Intel(R) Core(TM"
    /\ ret.bytes[48] = 0

\* C6: every factory call issues exactly one query, with its fixed selector
\* and sub-leaf 0, and returns the result words the descriptor is defined
\* by; n calls issue n queries, each descriptor built from its own query.
C6_OneQueryPerFactoryCall ==
    /\ Len(queries) = Len(ExpectedSelectors(calls))
    /\ \A n \in DOMAIN queries :
          queries[n] = [eax |-> ExpectedSelectors(calls)[n], ecx |-> Zero]
    /\ LastCall = "feature_information" =>
          /\ Len(regs) = 1
          /\ ret = [kind |-> "FeatureInformation",
                    ecx |-> regs[1][3], edx |-> regs[1][4]]
    /\ LastCall = "thermal_power_management_information" =>
          /\ Len(regs) = 1
          /\ ret = [kind |-> "ThermalPowerManagementInformation",
                    eax |-> regs[1][1], ebx |-> regs[1][2],
                    ecx |-> regs[1][3]]
    /\ LastCall = "structured_extended_information" =>
          /\ Len(regs) = 1
          /\ ret = [kind |-> "StructuredExtendedInformation",
                    ebx |-> regs[1][2], ecx |-> regs[1][3]]
    /\ LastCall = "physical_address_size" =>
          /\ Len(regs) = 1
          /\ ret = [kind |-> "PhysicalAddressSize", f0 |-> regs[1][1]]

\* feature_information called twice: two queries, both with selector 1, and
\* the second descriptor holds the second answer, which differs from the
\* first.
C6_Witness ==
    /\ calls = <<"feature_information", "feature_information">>
    /\ Len(queries) = 2
    /\ regs[1][3] = W(32, 67, 111, 114)
    /\ ret.ecx = W(32, 67, 111, 114)
    /\ ret.edx = W(101, 40, 84, 77)

\* The four bytes of a word, least significant first.
LsbFirst(w) ==
    [k \in 1..4 |->
        ToNat({b - 8 * (k - 1) :
                  b \in {c \in w : 8 * (k - 1) <= c /\ c <= 8 * (k - 1) + 7}})]

TestPassed == LastCall = "basic_genuine_intel" /\ ret.passed

\* C10 as stated: where basic_genuine_intel passes, the second, third and
\* fourth result words of query 0, as ASCII least significant byte first
\* and concatenated in that order, spell the vendor identification string.
C10_VendorStringInRegisterOrder ==
    TestPassed =>
        StrOf(LsbFirst(regs[1][2]) \o LsbFirst(regs[1][3])
                  \o LsbFirst(regs[1][4])) = "GenuineIntel"

\* C10 amended: where basic_genuine_intel passes, the words spell the
\* vendor identification string in the order second, fourth, third; in
\* the order second, third, fourth they spell "GenuntelineI".
C10_VendorStringSecondFourthThird ==
    TestPassed =>
        /\ StrOf(LsbFirst(regs[1][2]) \o LsbFirst(regs[1][4])
                    \o LsbFirst(regs[1][3])) = "GenuineIntel"
        /\ StrOf(LsbFirst(regs[1][2]) \o LsbFirst(regs[1][3])
                    \o LsbFirst(regs[1][4])) = "GenuntelineI"

C10_Witness ==
    /\ TestPassed
    /\ StrOf(as_bytes(regs[1][4])) = "ineI"

----------------------------------------------------------------------------
(* Rendering: impl fmt::Debug for the descriptors *)

Digits == <<"0", "1", "2", "3", "4", "5", "6", "7", "8", "9">>

\* The decimal numeral of the number hi * 65536 + lo, by long division.
RECURSIVE DecimalOf(_, _)
DecimalOf(hi, lo) ==
    IF hi = 0 /\ lo < 10 THEN Digits[lo + 1]
    ELSE LET t == (hi % 10) * 65536 + lo
         IN  DecimalOf(hi \div 10, t \div 10) \o Digits[(t % 10) + 1]

\* "{}" of a bool: true or false.
Display_bool(v) == IF v THEN "true" ELSE "false"

\* "{}" of a u32: its decimal numeral.
Display_u32(v) == DecimalOf(ToNat(Shr(v, 16)), ToNat(v \cap (0..15)))

\* One write to the sink: the sink rejects its reject_at-th write and
\* accepts every other one (reject_at = 0: it accepts them all).
write(f, text) ==
    IF f.attempts + 1 = f.reject_at
    THEN [result |-> "Err", sink |-> [f EXCEPT !.attempts = @ + 1]]
    ELSE [result |-> "Ok",
          sink |-> [f EXCEPT !.attempts = @ + 1,
                             !.accepted = Append(@, text)]]

\* The method of self's type called name.
method_named(self, name) ==
    CHOOSE m \in Range(impl_of(self.kind)) : m.name = name

\* writeln!($f, "{}: {}", stringify!($name), $me.$name()): the line is one
\* write to the sink. The bit! methods return bool, the others u32.
writeln(f, name, me) ==
    LET m == method_named(me, name)
        value ==
            IF m.kind = "bit" THEN Display_bool(invoke(me, m))
            ELSE Display_u32(invoke(me, m))
    IN  write(f, name \o ": " \o value \o "\n")

\* The dump! lines without try!: a rejected write is ignored and the
\* rendering goes on.
RECURSIVE dump_untried(_, _, _)
dump_untried(me, f, names) ==
    IF names = <<>> THEN [result |-> "Ok", sink |-> f]
    ELSE LET r == writeln(f, Head(names), me)
         IN  IF r.result = "Err" THEN dump_untried(me, r.sink, Tail(names))
             ELSE dump_untried(me, r.sink, Tail(names))

\* The dump! lines of a fmt body followed by Ok(()): each is
\* try!(writeln!(...)), which returns the sink's error at once.
RECURSIVE dump(_, _, _)
dump(me, f, names) ==
    IF names = <<>> THEN [result |-> "Ok", sink |-> f]
    ELSE LET r == writeln(f, Head(names), me)
         IN  IF r.result = "Err" THEN r
             ELSE dump(me, r.sink, Tail(names))

\* impl fmt::Debug for FeatureInformation (lib.rs 148-211): the dump! lines in order
FeatureInformation_dump ==
    <<"sse3", "pclmulqdq", "dtes64", "monitor",
      "ds_cpl", "vmx", "smx", "eist",
      "tm2", "ssse3", "cnxt_id", "sdbg",
      "fma", "cmpxchg16b", "xtpr_update_control", "pdcm",
      "pcid", "dca", "sse4_1", "sse4_2",
      "x2apic", "movbe", "popcnt", "tsc_deadline",
      "aesni", "xsave", "osxsave", "avx",
      "f16c", "rdrand", "fpu", "vme",
      "de", "pse", "tsc", "msr",
      "pae", "mce", "cx8", "apic",
      "sep", "mtrr", "pge", "mca",
      "cmov", "pat", "pse_36", "psn",
      "clfsh", "ds", "acpi", "mmx",
      "fxsr", "sse", "sse2", "ss",
      "htt", "tm", "pbe">>

\* impl fmt::Debug for StructuredExtendedInformation (lib.rs 380-402): the dump! lines in order
StructuredExtendedInformation_dump ==
    <<"fsgsbase", "ia32_tsc_adjust_msr", "bmi1", "hle",
      "avx2", "smep", "bmi2", "enhanced_rep_movsb_stosb",
      "invpcid", "rtm", "pqm", "deprecates_fpu_cs_ds",
      "pqe", "rdseed", "adx", "smap",
      "intel_processor_trace", "prefetchwt1">>

\* The thermal dump! lines with the numeric accessor moved to the end.
ThermalPowerManagementInformation_dump_reordered ==
    <<"digital_temperature_sensor", "intel_turbo_boost", "arat", "pln",
      "ecmd", "ptm", "hwp", "hwp_notification",
      "hwp_activity_window", "hwp_energy_performance_preference", "hdc",
      "hardware_coordination_feedback", "performance_energy_bias",
      "number_of_interrupt_thresholds">>

\* impl fmt::Debug for ThermalPowerManagementInformation (lib.rs 310-330): the dump! lines in order
ThermalPowerManagementInformation_dump ==
    <<"digital_temperature_sensor", "intel_turbo_boost", "arat", "pln",
      "ecmd", "ptm", "hwp", "hwp_notification",
      "hwp_activity_window", "hwp_energy_performance_preference", "hdc", "number_of_interrupt_thresholds",
      "hardware_coordination_feedback", "performance_energy_bias">>

\* A derived Debug that wrote the accessors as the other descriptors do.
PhysicalAddressSize_fmt_accessors(self, f) ==
    dump(self, f, <<"physical_address_bits", "linear_address_bits">>)

\* #[derive(Debug)] on the tuple struct PhysicalAddressSize(u32), for "{:?}":
\* the type's name and the field's Debug text in parentheses.
PhysicalAddressSize_fmt(self, f) ==
    write(f, "PhysicalAddressSize(" \o Display_u32(self.f0) \o ")")

dump_of(kind) ==
    CASE kind = "FeatureInformation" -> FeatureInformation_dump
      [] kind = "ThermalPowerManagementInformation" ->
            ThermalPowerManagementInformation_dump
      [] kind = "StructuredExtendedInformation" ->
            StructuredExtendedInformation_dump

----------------------------------------------------------------------------
(* Specification of the renderings: Init draws a descriptor and a sink,    *)
(* each action is one fmt call.                                            *)

MaxRenders == 2

\* 0, 0xFFFFFFFF, 0x00003024, 0x55555555, 0xAAAAAAAA
RenderWords ==
    {Zero, AllOnes, U32(0, 12324), U32(21845, 21845), U32(43690, 43690)}

RenderDescs ==
    {FeatureInformation(c, d) : c \in RenderWords, d \in RenderWords}
        \cup {ThermalPowerManagementInformation(a, b, c) :
                  a \in {Zero, AllOnes}, b \in RenderWords,
                  c \in {Zero, AllOnes}}
        \cup {StructuredExtendedInformation(b, c) :
                  b \in RenderWords, c \in RenderWords}
        \cup {PhysicalAddressSize(a) : a \in RenderWords}

\* Which write a sink rejects: none, or any up to one past the longest
\* rendering.
RejectAts == 0..(Len(FeatureInformation_dump) + 1)

InitRender ==
    /\ overflow_checks \in BOOLEAN
    /\ input = NoInput
    /\ call = NoCall
    /\ desc \in RenderDescs
    /\ IdleQuery
    /\ sink \in [accepted : {<<>>}, attempts : {0}, reject_at : RejectAts]
    /\ fmt_result = "none"
    /\ before = NoSink

CanRender == Len(calls) < MaxRenders

rendered(r) ==
    /\ sink' = r.sink
    /\ fmt_result' = r.result
    /\ before' = sink
    /\ calls' = Append(calls, "fmt")
    /\ UNCHANGED <<overflow_checks, input, call, desc, queries, regs, ret>>

\* impl fmt::Debug for FeatureInformation
fmt_FeatureInformation ==
    /\ CanRender
    /\ desc.kind = "FeatureInformation"
    /\ rendered(dump(desc, sink, FeatureInformation_dump))

\* impl fmt::Debug for ThermalPowerManagementInformation
fmt_ThermalPowerManagementInformation ==
    /\ CanRender
    /\ desc.kind = "ThermalPowerManagementInformation"
    /\ rendered(dump(desc, sink, ThermalPowerManagementInformation_dump))

\* impl fmt::Debug for StructuredExtendedInformation
fmt_StructuredExtendedInformation ==
    /\ CanRender
    /\ desc.kind = "StructuredExtendedInformation"
    /\ rendered(dump(desc, sink, StructuredExtendedInformation_dump))

\* The derived fmt::Debug of PhysicalAddressSize
fmt_PhysicalAddressSize ==
    /\ CanRender
    /\ desc.kind = "PhysicalAddressSize"
    /\ rendered(PhysicalAddressSize_fmt(desc, sink))

NextRender ==
    \/ fmt_FeatureInformation
    \/ fmt_ThermalPowerManagementInformation
    \/ fmt_StructuredExtendedInformation
    \/ fmt_PhysicalAddressSize

SpecRender == InitRender /\ [][NextRender]_vars

Rendered == fmt_result /= "none"

\* What the sink accepted during the last rendering.
NewText ==
    SubSeq(sink.accepted, Len(before.accepted) + 1, Len(sink.accepted))

\* The writes the last rendering attempted.
NewAttempts == sink.attempts - before.attempts

Numerals ==
    <<"0", "1", "2", "3", "4", "5", "6", "7", "8", "9", "10", "11", "12",
      "13", "14", "15">>

\* The value an accessor of the layout table stands for, as text.
ValueText(d, m) ==
    IF m.kind = "bit"
    THEN (IF m.idx \in d[m.reg] THEN "true" ELSE "false")
    ELSE Numerals[ToNat(d.ebx \cap (0..3)) + 1]

\* One line per accessor of the descriptor's impl block, in its order.
AccessorLines(d) ==
    [i \in DOMAIN impl_of(d.kind) |->
        impl_of(d.kind)[i].name \o ": " \o ValueText(d, impl_of(d.kind)[i])
            \o "\n"]

WordOrder == [eax |-> 1, ebx |-> 2, ecx |-> 3, edx |-> 4]

\* Where an accessor's field lies: <<word, lowest bit>>.
LayoutPos(m) ==
    IF m.kind = "bit" THEN <<WordOrder[m.reg], m.idx>>
    ELSE <<WordOrder.ebx, 0>>

Before(p, q) == p[1] < q[1] \/ (p[1] = q[1] /\ p[2] < q[2])

\* The dump! lines of a descriptor type name every method of its impl
\* block once, in ascending layout position.
DumpFollowsLayout(kind) ==
    LET names == dump_of(kind)
        pos == [i \in DOMAIN names |->
                   LayoutPos(CHOOSE m \in Range(impl_of(kind)) :
                                 m.name = names[i])]
    IN  /\ {names[i] : i \in DOMAIN names} =
              {m.name : m \in Range(impl_of(kind))}
        /\ Len(names) = Len(impl_of(kind))
        /\ \A i \in DOMAIN names, j \in DOMAIN names :
              i < j => (names[i] /= names[j] /\ Before(pos[i], pos[j]))

\* DumpFollowsLayout of each descriptor type with dump! lines.
DumpsFollowLayout == [kind \in BitKinds |-> DumpFollowsLayout(kind)]

\* C7: a rendering of FeatureInformation, ThermalPowerManagementInformation
\* or StructuredExtendedInformation that the sink accepts in full emits
\* exactly one line "<accessor-name>: <value>" per public accessor, in the
\* layout table's order (word by word, ascending bit index), no name left
\* out or repeated, each value the accessor's.
C7_OneLinePerAccessorInTableOrder ==
    (Rendered /\ desc.kind \in BitKinds /\ fmt_result = "Ok") =>
        /\ NewText = AccessorLines(desc)
        /\ DumpsFollowLayout[desc.kind]

\* A thermal descriptor with ebx = 0x55555555 rendered in full: line 12 is
\* the numeric accessor with value 5.
C7_Witness ==
    /\ Rendered
    /\ fmt_result = "Ok"
    /\ desc.kind = "ThermalPowerManagementInformation"
    /\ desc.ebx = U32(21845, 21845)
    /\ Len(NewText) = 14
    /\ NewText[12] = "number_of_interrupt_thresholds: 5\n"
    /\ NewText[1] = "digital_temperature_sensor: true\n"

DecimalSamples ==
    [w \in RenderWords |->
        CASE w = Zero -> "0"
          [] w = AllOnes -> "4294967295"
          [] w = U32(0, 12324) -> "12324"
          [] w = U32(21845, 21845) -> "1431655765"
          [] w = U32(43690, 43690) -> "2863311530"]

WritesOf(d) ==
    IF d.kind \in BitKinds THEN AccessorLines(d)
    ELSE <<"PhysicalAddressSize(" \o DecimalSamples[d.f0] \o ")">>

\* The write of the last rendering that the sink rejected, 0 if none.
RejectedWrite ==
    LET k == sink.reject_at - before.attempts
    IN  IF sink.reject_at /= 0 /\ 1 <= k /\ k <= Len(WritesOf(desc))
        THEN k ELSE 0

====
